---- MODULE Spec2Model ----
(***************************************************************************)
(* Model of the three tool executors of agent-tools-js:                    *)
(*   weatherForecastExecutor          (src/weatherForecast.js)             *)
(*   convertCurrencyExecutor          (src/unnamed/part_000, API-backed)   *)
(*   convertCurrencyExecutorOffline   (src/index.js, hardcoded rate table) *)
(* An invocation is an async function: it runs atomically from one await   *)
(* to the next, so each action below is one such segment of the body.      *)
(***************************************************************************)
EXTENDS Integers, Sequences, FiniteSets, TLC

VARIABLES
    exec,       \* id -> which executor the invocation runs
    args,       \* id -> the argument value the executor was called with
    pc,         \* id -> position of the invocation in the executor body
    progress,   \* id -> checkpoint values passed to publishToClient, in order
    sinkThrew,  \* id -> TRUE once publishToClient has thrown in the invocation
    calls,      \* id -> the axios.get calls issued so far, in order
    inflight,   \* id -> number of axios.get calls issued and not yet settled
    responses,  \* id -> what the calls of the invocation settled with, in order
    locals,     \* id -> local bindings that live across an await
    caught,     \* id -> the value bound to `error` in the catch block, if any
    result      \* id -> the settled promise: resolved JSON text, or rejection

vars == <<exec, args, pc, progress, sinkThrew, calls, inflight, responses, locals, caught, result>>

-----------------------------------------------------------------------------
(* Bounds of the model.                                                    *)

\* how many of the location strings below are tried
NumLocations == 2
\* how many of the amounts below are tried
NumAmounts == 3
\* how many of the provider weather codes below are tried
NumWeatherCodes == 4

-----------------------------------------------------------------------------
(* JavaScript values.  Every value is a record tagged by its type, so that *)
(* values of different types can be compared.                              *)

Undefined == [t |-> "undefined"]
Null == [t |-> "null"]
NaN == [t |-> "nan"]
Fn == [t |-> "function"]
Str(s) == [t |-> "string", s |-> s]
\* the decimal number m / 10^e
Num(m, e) == [t |-> "number", m |-> m, e |-> e]
Obj(f) == [t |-> "object", o |-> f]
Arr(a) == [t |-> "array", a |-> a]
EmptyObj == Obj([k \in {} |-> Undefined])

Nullish(v) == v.t \in {"undefined", "null"}

\* JavaScript truthiness, as used by if (x), !x and x || y
Truthy(v) ==
    CASE v.t \in {"undefined", "null", "nan"} -> FALSE
      [] v.t = "string" -> v.s # ""
      [] v.t = "number" -> v.m # 0
      [] OTHER -> TRUE

\* a || b
Or(a, b) == IF Truthy(a) THEN a ELSE b

\* v.k for a v that is not undefined or null (the caller checks Nullish first,
\* since that read throws a TypeError)
Get(v, k) ==
    IF v.t = "object" /\ k \in DOMAIN v.o THEN v.o[k]
    ELSE IF v.t = "array" /\ k = "length" THEN Num(Len(v.a), 0)
    ELSE Undefined

\* v[0] of an array
First(v) == IF v.t = "array" /\ Len(v.a) > 0 THEN v.a[1] ELSE Undefined

\* v?.k
OptGet(v, k) == IF Nullish(v) THEN Undefined ELSE Get(v, k)

\* new Error(msg), new TypeError(msg), new RangeError(msg): read only through .message
MkError(msg) == Obj([message |-> Str(msg)])

\* the TypeError of reading property k of undefined or null
ReadOf(v, k) ==
    MkError("Cannot read properties of " \o v.t \o " (reading '" \o k \o "')")

\* the TypeError of destructuring property k of undefined or null
DestructureOf(v, k) ==
    MkError("Cannot destructure property '" \o k \o "' of '" \o v.t \o "' as it is " \o v.t \o ".")

-----------------------------------------------------------------------------------------------------------------------------------------------------
(* Numbers.  Num(m, e) is the number a decimal text m / 10^e denotes: a    *)
(* literal of the call's arguments, a number of a JSON body, the text      *)
(* toFixed produces.  The value the engine computes with is the IEEE-754   *)
(* double nearest to it, kept as man * 2^exp with man a natural number in  *)
(* bits, least significant bit first.                                      *)

RECURSIVE Pow10(_)
Pow10(n) == IF n = 0 THEN 1 ELSE 10 * Pow10(n - 1)

\* strip trailing zeros of the fraction: the value parseFloat gives back
RECURSIVE Normalize(_)
Normalize(n) ==
    IF n.e > 0 /\ n.m % 10 = 0 THEN Normalize(Num(n.m \div 10, n.e - 1)) ELSE n

\* the significand is kept in limbs of 14 bits, least significant limb first
LimbBits == 14

RECURSIVE Pow2(_)
Pow2(n) == IF n = 0 THEN 1 ELSE 2 * Pow2(n - 1)

Base == Pow2(LimbBits)

\* the limbs of a natural number
RECURSIVE LimbsOf(_)
LimbsOf(n) == IF n = 0 THEN <<>> ELSE <<n % Base>> \o LimbsOf(n \div Base)

\* the natural number of a sequence of limbs
RECURSIVE NatOf(_)
NatOf(x) == IF x = <<>> THEN 0 ELSE Head(x) + Base * NatOf(Tail(x))

\* without the zero limbs at the top
RECURSIVE Trim(_)
Trim(x) == IF x # <<>> /\ x[Len(x)] = 0 THEN Trim(SubSeq(x, 1, Len(x) - 1)) ELSE x

\* the number of bits of a natural number below Base
RECURSIVE Width(_)
Width(n) == IF n = 0 THEN 0 ELSE 1 + Width(n \div 2)

\* the number of bits of x
BitLen(x) ==
    LET t == Trim(x) IN IF t = <<>> THEN 0 ELSE (LimbBits * (Len(t) - 1)) + Width(t[Len(t)])

\* bit j of x, bit 1 the least significant
Bit(x, j) ==
    LET k == (j - 1) \div LimbBits + 1
    IN  IF k > Len(x) THEN 0 ELSE (x[k] \div Pow2((j - 1) % LimbBits)) % 2

\* column values to limbs, carrying c in
RECURSIVE Carry(_, _)
Carry(cols, c) ==
    IF cols = <<>> THEN LimbsOf(c)
    ELSE <<(Head(cols) + c) % Base>> \o Carry(Tail(cols), (Head(cols) + c) \div Base)

Limb(x, j) == IF j >= 1 /\ j <= Len(x) THEN x[j] ELSE 0

\* x + y
AddLimbs(x, y) ==
    Trim(Carry([j \in 1..(IF Len(x) > Len(y) THEN Len(x) ELSE Len(y)) |-> Limb(x, j) + Limb(y, j)], 0))

\* the sum of x[i] * y[k + 1 - i] for i from 1 to n
RECURSIVE Column(_, _, _, _)
Column(x, y, k, n) ==
    IF n = 0 THEN 0 ELSE Limb(x, n) * Limb(y, k + 1 - n) + Column(x, y, k, n - 1)

\* x * y
MulLimbs(x, y) ==
    IF x = <<>> \/ y = <<>> THEN <<>>
    ELSE Trim(Carry([k \in 1..(Len(x) + Len(y) - 1) |-> Column(x, y, k, Len(x))], 0))

\* floor(x / 2^k)
ShiftRight(x, k) ==
    LET q == k \div LimbBits
        r == k % LimbBits
    IN  IF Len(x) <= q THEN <<>>
        ELSE Trim([j \in 1..(Len(x) - q) |->
                    (x[j + q] \div Pow2(r)) + (Limb(x, j + q + 1) % Pow2(r)) * Pow2(LimbBits - r)])

\* x * 2^k
ShiftLeft(x, k) ==
    LET q == k \div LimbBits
        r == k % LimbBits
    IN  IF x = <<>> THEN <<>>
        ELSE Trim([j \in 1..q |-> 0] \o
                  [j \in 1..(Len(x) + 1) |->
                    ((Limb(x, j) * Pow2(r)) % Base) + (Limb(x, j - 1) \div Pow2(LimbBits - r))])

\* the limbs k..1 of x divided by a small d, after the higher limbs left
\* remainder r: quotient limbs and final remainder
RECURSIVE DivLimbs(_, _, _, _)
DivLimbs(x, k, d, r) ==
    IF k = 0 THEN [q |-> <<>>, r |-> r]
    ELSE LET t == r * Base + x[k]
             lower == DivLimbs(x, k - 1, d, t % d)
         IN  [q |-> lower.q \o <<t \div d>>, r |-> lower.r]

\* the bits a double has for its significand
Precision == 53

\* x * 2^exp, to the nearest value with a significand of Precision bits, a tie
\* to the even one; inexact says that x stands for a value slightly above it
RoundToDouble(x, exp, inexact) ==
    LET drop == IF BitLen(x) > Precision THEN BitLen(x) - Precision ELSE 0
        man == ShiftRight(x, drop)
        half == drop > 0 /\ Bit(x, drop) = 1
        sticky == inexact \/ (drop > 1 /\ ShiftLeft(ShiftRight(x, drop - 1), drop - 1) # Trim(x))
        up == half /\ (sticky \/ Bit(man, 1) = 1)
    IN  [t |-> "number", man |-> IF up THEN AddLimbs(man, <<1>>) ELSE man, exp |-> exp + drop]

\* binary digits kept below the point while converting a decimal text
Guard == 84

\* the double a number has in the engine: of a decimal text the nearest one
ToDouble(n) ==
    IF "man" \in DOMAIN n THEN n
    ELSE LET x == ShiftLeft(LimbsOf(n.m), Guard)
             d == DivLimbs(x, Len(x), Pow10(n.e), 0)
         IN  RoundToDouble(d.q, 0 - Guard, d.r # 0)

\* a * b of two numbers: the exact product of the two doubles, rounded to a
\* double; anything that is not a number gives NaN (undefined * rate)
Times(a, b) ==
    IF a.t = "number" /\ b.t = "number"
    THEN LET x == ToDouble(a)
             y == ToDouble(b)
         IN  RoundToDouble(MulLimbs(x.man, y.man), x.exp + y.exp, FALSE)
    ELSE NaN

\* x.toFixed(2) of a number that is not negative: the n with n / 100 nearest
\* to the exact value of the double x, the larger n of two equally near; as
\* the number its text denotes; "NaN" for NaN
ToFixed2(x) ==
    IF x.t # "number" THEN NaN
    ELSE LET d == ToDouble(x)
         IN  IF d.exp >= 0 THEN Num(NatOf(ShiftLeft(MulLimbs(d.man, LimbsOf(100)), d.exp)), 2)
             ELSE Num(NatOf(ShiftRight(AddLimbs(MulLimbs(d.man, LimbsOf(200)),
                                                ShiftLeft(<<1>>, 0 - d.exp)),
                                       1 - d.exp)), 2)

\* parseFloat(s) of the text toFixed produced
ParseFloat(x) == IF x.t = "number" THEN Normalize(x) ELSE NaN

\* the e digits of the fraction of m / 10^e
RECURSIVE FractionDigits(_, _)
FractionDigits(m, e) ==
    IF e = 0 THEN "" ELSE ToString((m \div Pow10(e - 1)) % 10) \o FractionDigits(m, e - 1)

\* String(v), as a template literal `${v}` converts v
ToStr(v) ==
    CASE v.t = "string" -> v.s
      [] v.t = "undefined" -> "undefined"
      [] v.t = "null" -> "null"
      [] v.t = "nan" -> "NaN"
      [] v.t = "number" ->
            LET n == Normalize(v)
            IN  IF n.e = 0 THEN ToString(n.m)
                ELSE ToString(n.m \div Pow10(n.e)) \o "." \o FractionDigits(n.m, n.e)
      [] OTHER -> "[object Object]"

-----------------------------------------------------------------------------
(* JSON.stringify.  The JSON text is represented by the value it decodes   *)
(* to: a key whose value is undefined or a function is left out, NaN is    *)
(* written as null, an undefined array element is written as null.         *)

Omitted(v) == v.t \in {"undefined", "function"}

RECURSIVE JSONStringify(_)
JSONStringify(v) ==
    CASE v.t = "object" ->
            LET kept == {k \in DOMAIN v.o : ~Omitted(v.o[k])}
            IN  Obj([k \in kept |-> JSONStringify(v.o[k])])
      [] v.t = "array" ->
            Arr([i \in 1..Len(v.a) |->
                    IF Omitted(v.a[i]) THEN Null ELSE JSONStringify(v.a[i])])
      [] v.t = "nan" -> Null
      [] OTHER -> v

\* the top-level keys of a JSON text
Keys(j) == IF j.t = "object" THEN DOMAIN j.o ELSE {}

-----------------------------------------------------------------------------
(* Arguments the executors are called with.                                *)

Ids == {1}

LocationList == <<"London", "", "Atlantis", "New York">>
Locations == {Str(LocationList[k]) : k \in 1..NumLocations}

AmountList == <<Num(100, 0), Num(5, 1), Num(12345, 2), Num(1, 0)>>
Amounts == {AmountList[k] : k \in 1..NumAmounts}

\* an object literal with the keys whose value was supplied
Literal(f) == Obj([k \in {x \in DOMAIN f : f[x] # Undefined} |-> f[k]])

\* { location, units, publishToClient }: the schema of weatherForecastTool;
\* any field may be missing, and so may the object
WeatherArgs ==
    {Undefined} \cup
    {Literal([location |-> l, units |-> u, publishToClient |-> p]) :
        l \in Locations \cup {Undefined},
        u \in {Str("metric"), Str("imperial"), Undefined},
        p \in {Fn, Undefined}}

\* { amount, fromCurrency, toCurrency, publishToClient }: the schema of convertCurrencyTool
CurrencyArgs ==
    {Undefined} \cup
    {Literal([amount |-> a, fromCurrency |-> f, toCurrency |-> c, publishToClient |-> p]) :
        a \in Amounts \cup {Undefined},
        f \in {Str(c) : c \in {"USD", "GBP", "XYZ"}} \cup {Undefined},
        c \in {Str(c) : c \in {"EUR", "JPY", "XYZ"}} \cup {Undefined},
        p \in {Fn, Undefined}}

Executors == {"weather", "api", "offline"}

ArgsOf(e) == IF e = "weather" THEN WeatherArgs ELSE CurrencyArgs

-----------------------------------------------------------------------------
(* What the outside world can do: the values an axios.get call settles     *)
(* with and the values publishToClient throws.                             *)

\* a structured (JSON) error body of a provider
StructuredBody == Obj([cod |-> Str("404"), message |-> Str("city not found")])

\* values an axios.get promise rejects with
CallFailures ==
    { MkError("Network error"),
      MkError(""),
      Obj([response |-> Obj([data |-> StructuredBody])]),
      Obj([message |-> Str("Request failed with status code 404"),
           response |-> Obj([data |-> StructuredBody])]),
      Obj([message |-> Str("Request failed with status code 502"),
           response |-> Obj([data |-> Str("Bad Gateway")])]),
      Obj([message |-> Str("Request failed with status code 500"),
           response |-> Obj([data |-> Str("")])]),
      Null }

\* values publishToClient throws; NoThrow stands for a normal return
NoThrow == [t |-> "nothrow"]
SinkFailures == {MkError("Client disconnected"), EmptyObj}
SinkOutcomes == {NoThrow} \cup SinkFailures

Resolved(body) == [ok |-> TRUE, response |-> Obj([data |-> body])]
Rejected(f) == [ok |-> FALSE, err |-> f]

\* one match of the geocoding API
Match ==
    Obj([name |-> Str("London"), country_code |-> Str("GB"),
         latitude |-> Num(515074, 4), longitude |-> Num(-1278, 4)])

\* bodies of the geocoding API: a match, a match without country_code, an empty
\* list, no list, a list holding null, no body
GeocodeBodies ==
    { Obj([results |-> Arr(<<Match>>)]),
      Obj([results |-> Arr(<<Obj([name |-> Str("New York"),
                                  latitude |-> Num(407128, 4),
                                  longitude |-> Num(-740060, 4)])>>)]),
      Obj([results |-> Arr(<<>>)]),
      EmptyObj,
      Obj([results |-> Arr(<<Null>>)]),
      Undefined }

WeatherCodeList == <<0, 61, 100, 95, 3, 45, 99, 7>>
WeatherCodes == {WeatherCodeList[k] : k \in 1..NumWeatherCodes}

\* the `current` block of the forecast API with weather code c
Current(c) ==
    Obj([temperature_2m |-> Num(152, 1), relative_humidity_2m |-> Num(76, 0),
         apparent_temperature |-> Num(148, 1), precipitation |-> Num(1, 1),
         weather_code |-> Num(c, 0), pressure_msl |-> Num(10125, 1),
         wind_speed_10m |-> Num(42, 1), wind_direction_10m |-> Num(240, 0),
         cloud_cover |-> Num(75, 0), time |-> Str("2023-06-15T12:00:00Z")])

\* bodies of the forecast API: complete, echoing units of the provider's own,
\* partial (fields left out), without the `current` block, no body
ForecastBodies ==
    {Obj([current |-> Current(c)]) : c \in WeatherCodes} \cup
    { Obj([current |-> Current(1),
           current_units |-> Obj([temperature_2m |-> Str("°C"), wind_speed_10m |-> Str("km/h")])]),
      Obj([current |-> Obj([weather_code |-> Num(3, 0), temperature_2m |-> Num(152, 1)])]),
      Obj([current |-> EmptyObj]),
      EmptyObj,
      Undefined }

\* source currencies the exchange-rate API has a rate table for
ApiSources == {"USD", "GBP"}

\* bodies of the exchange-rate API that carry a rate table for base b
RateBodies(b) ==
    { Obj([base |-> Str(b),
           rates |-> Obj([EUR |-> Num(85, 2), GBP |-> Num(75, 2), JPY |-> Num(1102, 1)]),
           time_last_updated |-> Num(1700000000, 0)]),
      Obj([base |-> Str(b), rates |-> Obj([EUR |-> Num(8537, 4)])]),
      Obj([base |-> Str(b), rates |-> Obj([EUR |-> Num(85, 2), GBP |-> Num(75, 2)]),
           time_last_updated |-> Str("n/a"), provider |-> Str("https://www.exchangerate-api.com")]) }

\* bodies of the exchange-rate API without a rate table
NoRateBodies == {Obj([result |-> Str("error")]), Undefined}

\* what GET /v4/latest/<base> can settle with: a base the API does not know
\* never yields a rate table
RateSettlements(base) ==
    {Rejected(f) : f \in CallFailures} \cup
    {Resolved(b) : b \in NoRateBodies} \cup
    (IF base \in ApiSources THEN {Resolved(b) : b \in RateBodies(base)} ELSE {})

GeocodeSettlements ==
    {Rejected(f) : f \in CallFailures} \cup {Resolved(b) : b \in GeocodeBodies}

ForecastSettlements ==
    {Rejected(f) : f \in CallFailures} \cup {Resolved(b) : b \in ForecastBodies}

-----------------------------------------------------------------------------
(* Outcomes of one segment of an executor body (from its start or from the *)
(* settling of an awaited call, up to the next await, return or throw).    *)

\* the segment ends at `await axios.get(...)`
Await(next, call, pr, loc) ==
    [k |-> "await", next |-> next, call |-> call, progress |-> pr, locals |-> loc]
\* the segment ends at `return JSON.stringify(...)` inside the try block
Return(json, pr) == [k |-> "return", json |-> json, progress |-> pr]
\* the segment throws inside the try block; from: "call", "sink" or "internal"
Throw(err, from, pr) == [k |-> "throw", err |-> err, from |-> from, progress |-> pr]
\* the segment throws outside the try block: the promise rejects
RejectWith(err) == [k |-> "reject", err |-> err]

\* if (publishToClient) publishToClient({type: 'progress', data: {..., progress: cp}})
Publish(pub, pr, cp) == IF Truthy(pub) THEN Append(pr, cp) ELSE pr
\* whether that statement throws, the sink behaving as `outcome`
Throws(pub, outcome) == Truthy(pub) /\ outcome # NoThrow

-----------------------------------------------------------------------------
(* The catch blocks.                                                       *)

\* error.message without the fallback
CatchMessageNoFallback(error, fallback) == Get(error, "message")

\* error.message || fallback
CatchMessage(error, fallback) == Or(Get(error, "message"), Str(fallback))

\* error.response || null: the whole response instead of its body
CatchDetailsResponse(error) == Or(Get(error, "response"), Null)

\* error.response?.data || null
CatchDetails(error) == Or(OptGet(Get(error, "response"), "data"), Null)

\* a catch block that leaves a `data: null` in the envelope
ErrorEnvelopeWithData(error, fallback) ==
    Obj([data |-> Null,
         error |-> Obj([message |-> CatchMessage(error, fallback),
                        details |-> CatchDetails(error)])])

\* the object handed to JSON.stringify in a catch block that reports details
ErrorEnvelope(error, fallback) ==
    Obj([error |-> Obj([message |-> CatchMessage(error, fallback),
                        details |-> CatchDetails(error)])])

\* the object handed to JSON.stringify in the catch block of the offline executor
ErrorEnvelopeOffline(error, fallback) ==
    Obj([error |-> Obj([message |-> CatchMessage(error, fallback)])])

WeatherFallback == "Failed to retrieve weather data"
CurrencyFallback == "Failed to convert currency"

\* catch (error) { ... } of executor e: reading error.message of undefined or
\* null throws out of the catch block
Catch(e, error, pr) ==
    IF Nullish(error) THEN RejectWith(ReadOf(error, "message"))
    ELSE IF e = "weather" THEN Return(JSONStringify(ErrorEnvelope(error, WeatherFallback)), pr)
    ELSE IF e = "api" THEN Return(JSONStringify(ErrorEnvelope(error, CurrencyFallback)), pr)
    ELSE Return(JSONStringify(ErrorEnvelopeOffline(error, CurrencyFallback)), pr)

-----------------------------------------------------------------------------
(* weatherForecastExecutor                                                 *)

\* units = 'metric' in the parameter list
UnitsOf(a) == IF Get(a, "units") = Undefined THEN Str("metric") ELSE Get(a, "units")

GeocodeCall(location) ==
    [api |-> "geocoding", params |-> [name |-> location]]

\* the request asks for the weather of one fixed place
ForecastCallFixedPlace(locationData, units) ==
    [api |-> "forecast",
     params |-> [latitude |-> Num(515074, 4),
                 longitude |-> Num(-1278, 4),
                 temperature_unit |-> IF units = Str("metric") THEN "celsius" ELSE "fahrenheit",
                 wind_speed_unit |-> IF units = Str("metric") THEN "ms" ELSE "mph"]]

\* the request always asks the provider for metric values
ForecastCallAlwaysMetric(locationData, units) ==
    [api |-> "forecast",
     params |-> [latitude |-> Get(locationData, "latitude"),
                 longitude |-> Get(locationData, "longitude"),
                 temperature_unit |-> "celsius",
                 wind_speed_unit |-> "ms"]]

ForecastCall(locationData, units) ==
    [api |-> "forecast",
     params |-> [latitude |-> Get(locationData, "latitude"),
                 longitude |-> Get(locationData, "longitude"),
                 temperature_unit |-> IF units = Str("metric") THEN "celsius" ELSE "fahrenheit",
                 wind_speed_unit |-> IF units = Str("metric") THEN "ms" ELSE "mph"]]

\* new Error(`Location "${location}" not found`)
NotFoundError(location) == MkError("Location \"" \o ToStr(location) \o "\" not found")

\* from the call of the executor to the first await
WeatherBegin(a, s25) ==
    IF Nullish(a) THEN RejectWith(DestructureOf(a, "location"))
    ELSE LET pub == Get(a, "publishToClient")
             pr == Publish(pub, <<>>, 25)
         IN  IF Throws(pub, s25) THEN Throw(s25, "sink", pr)
             ELSE Await("geocode", GeocodeCall(Get(a, "location")), pr, Undefined)

\* !geocodeResponse.data.results alone: the length test forgotten
NoResultsMissingOnly(data) == ~Truthy(Get(data, "results"))

\* !geocodeResponse.data.results || geocodeResponse.data.results.length === 0
NoResults(data) ==
    \/ ~Truthy(Get(data, "results"))
    \/ Get(Get(data, "results"), "length") = Num(0, 0)

\* from the settling of the geocoding call to the second await
WeatherAfterGeocode(a, pr, settled) ==
    IF ~settled.ok THEN Throw(settled.err, "call", pr)
    ELSE LET data == Get(settled.response, "data")
             locationData == First(Get(data, "results"))
         IN  IF Nullish(data) THEN Throw(ReadOf(data, "results"), "internal", pr)
             ELSE IF NoResults(data) THEN Throw(NotFoundError(Get(a, "location")), "internal", pr)
             ELSE IF Nullish(locationData)
                  THEN Throw(DestructureOf(locationData, "latitude"), "internal", pr)
             ELSE Await("forecast", ForecastCall(locationData, UnitsOf(a)), pr, locationData)

weatherCodeMap ==
    (0 :> [description |-> "Clear sky", icon |-> "01d"]) @@
    (1 :> [description |-> "Mainly clear", icon |-> "02d"]) @@
    (2 :> [description |-> "Partly cloudy", icon |-> "03d"]) @@
    (3 :> [description |-> "Overcast", icon |-> "04d"]) @@
    (45 :> [description |-> "Fog", icon |-> "50d"]) @@
    (48 :> [description |-> "Depositing rime fog", icon |-> "50d"]) @@
    (51 :> [description |-> "Light drizzle", icon |-> "09d"]) @@
    (53 :> [description |-> "Moderate drizzle", icon |-> "09d"]) @@
    (55 :> [description |-> "Dense drizzle", icon |-> "09d"]) @@
    (61 :> [description |-> "Slight rain", icon |-> "10d"]) @@
    (63 :> [description |-> "Moderate rain", icon |-> "10d"]) @@
    (65 :> [description |-> "Heavy rain", icon |-> "10d"]) @@
    (71 :> [description |-> "Slight snow fall", icon |-> "13d"]) @@
    (73 :> [description |-> "Moderate snow fall", icon |-> "13d"]) @@
    (75 :> [description |-> "Heavy snow fall", icon |-> "13d"]) @@
    (95 :> [description |-> "Thunderstorm", icon |-> "11d"]) @@
    (96 :> [description |-> "Thunderstorm with slight hail", icon |-> "11d"]) @@
    (99 :> [description |-> "Thunderstorm with heavy hail", icon |-> "11d"])

\* code ? weatherCodeMap[code] : fallback: code 0 taken for a missing code
WeatherInfoZeroMissing(code) ==
    IF Truthy(code) /\ Normalize(code).e = 0 /\ Normalize(code).m \in DOMAIN weatherCodeMap
    THEN weatherCodeMap[Normalize(code).m]
    ELSE [description |-> "Unknown", icon |-> "03d"]

\* weatherCodeMap[code] || { description: 'Unknown', icon: '03d' }
WeatherInfo(code) ==
    IF code.t = "number" /\ Normalize(code).e = 0 /\ Normalize(code).m \in DOMAIN weatherCodeMap
    THEN weatherCodeMap[Normalize(code).m]
    ELSE [description |-> "Unknown", icon |-> "03d"]

\* the formattedData object literal
FormattedData(locationData, current, units) ==
    Obj([location |->
            Obj([name |-> Get(locationData, "name"),
                 country |-> Get(locationData, "country_code"),
                 coordinates |-> Obj([lat |-> Get(locationData, "latitude"),
                                      lon |-> Get(locationData, "longitude")])]),
         current |->
            Obj([temperature |-> Get(current, "temperature_2m"),
                 feels_like |-> Get(current, "apparent_temperature"),
                 humidity |-> Get(current, "relative_humidity_2m"),
                 pressure |-> Get(current, "pressure_msl"),
                 description |-> Str(WeatherInfo(Get(current, "weather_code")).description),
                 icon |-> Str(WeatherInfo(Get(current, "weather_code")).icon),
                 wind |-> Obj([speed |-> Get(current, "wind_speed_10m"),
                               direction |-> Get(current, "wind_direction_10m")]),
                 cloudiness |-> Get(current, "cloud_cover"),
                 timestamp |-> Get(current, "time")]),
         units |->
            IF units = Str("metric")
            THEN Obj([temperature |-> Str("°C"), wind |-> Str("m/s")])
            ELSE Obj([temperature |-> Str("°F"), wind |-> Str("mph")])])

\* from the settling of the forecast call to the return
WeatherAfterForecast(a, pr, locationData, settled, s75, s100) ==
    IF ~settled.ok THEN Throw(settled.err, "call", pr)
    ELSE LET pub == Get(a, "publishToClient")
             weatherData == Get(settled.response, "data")
             pr75 == Publish(pub, pr, 75)
             current == Get(weatherData, "current")
             pr100 == Publish(pub, pr75, 100)
         IN  IF Throws(pub, s75) THEN Throw(s75, "sink", pr75)
             ELSE IF Nullish(weatherData) THEN Throw(ReadOf(weatherData, "current"), "internal", pr75)
             ELSE IF Nullish(current) THEN Throw(ReadOf(current, "weather_code"), "internal", pr75)
             ELSE IF Throws(pub, s100) THEN Throw(s100, "sink", pr100)
             ELSE Return(JSONStringify(Obj([data |-> FormattedData(locationData, current, UnitsOf(a))])),
                         pr100)

-----------------------------------------------------------------------------
(* convertCurrencyExecutor (API-backed)                                    *)

\* axios.get(`https://api.exchangerate-api.com/v4/latest/${fromCurrency}`)
RatesCall(fromCurrency) == [api |-> "rates", params |-> [base |-> ToStr(fromCurrency)]]

\* from the call of the executor to the await
CurrencyBegin(a, s25) ==
    IF Nullish(a) THEN RejectWith(DestructureOf(a, "amount"))
    ELSE LET pub == Get(a, "publishToClient")
             pr == Publish(pub, <<>>, 25)
         IN  IF Throws(pub, s25) THEN Throw(s25, "sink", pr)
             ELSE Await("rates", RatesCall(Get(a, "fromCurrency")), pr, Undefined)

\* parseFloat((amount * rate).toFixed(2))
FormattedAmount(amount, rate) == ParseFloat(ToFixed2(Times(amount, rate)))

\* `${amount} ${fromCurrency} = ${formattedAmount} ${toCurrency}`
EquivalentString(amount, fromCurrency, formattedAmount, toCurrency) ==
    Str(ToStr(amount) \o " " \o ToStr(fromCurrency) \o " = "
        \o ToStr(formattedAmount) \o " " \o ToStr(toCurrency))

\* new Date().toISOString(): the time of the call, some valid date
Now == Str("2023-11-15T08:00:00.000Z")

\* whether new Date(t * 1000).toISOString() throws a RangeError: t * 1000 is NaN
InvalidTime(t) == t.t # "number"

\* new Date(t * 1000).toISOString() of the epoch seconds the provider sends
\* (1700000000, the one numeric time_last_updated of RateBodies)
EpochToISO(t) == Str("2023-11-14T22:13:20.000Z")

\* the object literal under `data` in the API-backed executor
CurrencyData(a, exchangeRateData, rate) ==
    LET amount == Get(a, "amount")
        formattedAmount == FormattedAmount(amount, rate)
        updated == Get(exchangeRateData, "time_last_updated")
    IN  Obj([amount |-> formattedAmount,
             fromCurrency |-> Get(a, "fromCurrency"),
             toCurrency |-> Get(a, "toCurrency"),
             rate |-> rate,
             equivalentString |->
                EquivalentString(amount, Get(a, "fromCurrency"),
                                 formattedAmount, Get(a, "toCurrency")),
             timestamp |-> Now,
             lastUpdated |-> IF Truthy(updated) THEN EpochToISO(updated) ELSE Null,
             provider |-> Or(Get(exchangeRateData, "provider"), Str("Exchange Rate API"))])

\* the message of the not-fetched case reused for a missing target
TargetErrorGeneric(toCurrency) == MkError("Failed to fetch exchange rates")

\* new Error(`Conversion to ${toCurrency} is not supported`)
TargetError(toCurrency) == MkError("Conversion to " \o ToStr(toCurrency) \o " is not supported")

\* from the settling of the rates call to the return
CurrencyAfterRates(a, pr, settled, s75, s100) ==
    IF ~settled.ok THEN Throw(settled.err, "call", pr)
    ELSE LET pub == Get(a, "publishToClient")
             exchangeRateData == Get(settled.response, "data")
             rate == Get(Get(exchangeRateData, "rates"), ToStr(Get(a, "toCurrency")))
             pr75 == Publish(pub, pr, 75)
             pr100 == Publish(pub, pr75, 100)
             updated == Get(exchangeRateData, "time_last_updated")
         IN  IF ~Truthy(exchangeRateData) \/ ~Truthy(Get(exchangeRateData, "rates"))
             THEN Throw(MkError("Failed to fetch exchange rates"), "internal", pr)
             ELSE IF ~Truthy(rate) THEN Throw(TargetError(Get(a, "toCurrency")), "internal", pr)
             ELSE IF Throws(pub, s75) THEN Throw(s75, "sink", pr75)
             ELSE IF Throws(pub, s100) THEN Throw(s100, "sink", pr100)
             ELSE IF Truthy(updated) /\ InvalidTime(updated)
                  THEN Throw(MkError("Invalid time value"), "internal", pr100)
             ELSE Return(JSONStringify(Obj([data |-> CurrencyData(a, exchangeRateData, rate)])),
                         pr100)

-----------------------------------------------------------------------------
(* convertCurrencyExecutor (offline rate table)                            *)

exchangeRates ==
    [USD |-> [EUR |-> Num(93, 2), GBP |-> Num(79, 2), JPY |-> Num(15172, 2),
              CAD |-> Num(138, 2), AUD |-> Num(152, 2), CHF |-> Num(89, 2),
              CNY |-> Num(721, 2), INR |-> Num(8345, 2)],
     EUR |-> [USD |-> Num(108, 2), GBP |-> Num(85, 2), JPY |-> Num(16385, 2),
              CAD |-> Num(149, 2), AUD |-> Num(164, 2), CHF |-> Num(96, 2),
              CNY |-> Num(779, 2), INR |-> Num(9013, 2)],
     GBP |-> [USD |-> Num(127, 2), EUR |-> Num(117, 2), JPY |-> Num(1919, 1),
              CAD |-> Num(174, 2), AUD |-> Num(192, 2), CHF |-> Num(113, 2),
              CNY |-> Num(912, 2), INR |-> Num(10548, 2)]]

\* new Error(`Unsupported currency: ${fromCurrency}`)
SourceError(fromCurrency) == MkError("Unsupported currency: " \o ToStr(fromCurrency))

\* new Error(`Conversion from ${fromCurrency} to ${toCurrency} is not supported`)
PairError(fromCurrency, toCurrency) ==
    MkError("Conversion from " \o ToStr(fromCurrency) \o " to " \o ToStr(toCurrency)
            \o " is not supported")

\* the object literal under `data` in the offline executor
OfflineData(a, rate) ==
    LET amount == Get(a, "amount")
        formattedAmount == FormattedAmount(amount, rate)
    IN  Obj([amount |-> formattedAmount,
             fromCurrency |-> Get(a, "fromCurrency"),
             toCurrency |-> Get(a, "toCurrency"),
             rate |-> rate,
             equivalentString |->
                EquivalentString(amount, Get(a, "fromCurrency"),
                                 formattedAmount, Get(a, "toCurrency")),
             timestamp |-> Now])

\* the whole body: it has no await
OfflineRun(a, s50) ==
    IF Nullish(a) THEN RejectWith(DestructureOf(a, "amount"))
    ELSE LET pub == Get(a, "publishToClient")
             from == ToStr(Get(a, "fromCurrency"))
             to == ToStr(Get(a, "toCurrency"))
             pr50 == Publish(pub, <<>>, 50)
         IN  IF from \notin DOMAIN exchangeRates
             THEN Throw(SourceError(Get(a, "fromCurrency")), "internal", <<>>)
             ELSE IF to \notin DOMAIN exchangeRates[from]
             THEN Throw(PairError(Get(a, "fromCurrency"), Get(a, "toCurrency")), "internal", <<>>)
             ELSE IF Throws(pub, s50) THEN Throw(s50, "sink", pr50)
             ELSE Return(JSONStringify(Obj([data |-> OfflineData(a, exchangeRates[from][to])])),
                         pr50)

-----------------------------------------------------------------------------
(* The state machine.                                                      *)

Pending == [state |-> "pending"]
Fulfilled(json) == [state |-> "fulfilled", json |-> json]
RejectedWith(err) == [state |-> "rejected", reason |-> err]
NotCaught == [t |-> "none"]

Init ==
    /\ exec \in [Ids -> Executors]
    /\ args \in [Ids -> WeatherArgs \cup CurrencyArgs]
    /\ \A i \in Ids : args[i] \in ArgsOf(exec[i])
    /\ pc = [i \in Ids |-> "called"]
    /\ progress = [i \in Ids |-> <<>>]
    /\ sinkThrew = [i \in Ids |-> FALSE]
    /\ calls = [i \in Ids |-> <<>>]
    /\ inflight = [i \in Ids |-> 0]
    /\ responses = [i \in Ids |-> <<>>]
    /\ locals = [i \in Ids |-> Undefined]
    /\ caught = [i \in Ids |-> NotCaught]
    /\ result = [i \in Ids |-> Pending]

\* the segment outcome after the catch block has handled a throw
Handled(e, r) == IF r.k = "throw" THEN Catch(e, r.err, r.progress) ELSE r

\* one list of progress events for all invocations: what a segment of one
\* invocation publishes becomes the list of every invocation
StepSharedProgress(i, r, settled) ==
    LET h == Handled(exec[i], r)
    IN  /\ pc' = [pc EXCEPT ![i] = IF h.k = "await" THEN h.next ELSE "done"]
        /\ progress' = [j \in DOMAIN progress |-> IF r.k = "reject" THEN progress[j] ELSE r.progress]
        /\ sinkThrew' = [sinkThrew EXCEPT ![i] = @ \/ (r.k = "throw" /\ r.from = "sink")]
        /\ calls' = [calls EXCEPT ![i] = IF h.k = "await" THEN Append(@, h.call) ELSE @]
        /\ inflight' = [inflight EXCEPT ![i] =
                            @ - Len(settled) + (IF h.k = "await" THEN 1 ELSE 0)]
        /\ responses' = [responses EXCEPT ![i] = @ \o settled]
        /\ locals' = [locals EXCEPT ![i] = IF h.k = "await" THEN h.locals ELSE @]
        /\ caught' = [caught EXCEPT ![i] =
                            IF r.k = "throw" THEN [t |-> "caught", error |-> r.err, from |-> r.from]
                            ELSE @]
        /\ result' = [result EXCEPT ![i] =
                            CASE h.k = "return" -> Fulfilled(h.json)
                              [] h.k = "reject" -> RejectedWith(h.err)
                              [] OTHER -> @]
        /\ UNCHANGED <<exec, args>>

\* invocation i ran a segment with outcome r; `settled` is the sequence of
\* settlements the segment started from (none at the call, one after an await)
Step(i, r, settled) ==
    LET h == Handled(exec[i], r)
    IN  /\ pc' = [pc EXCEPT ![i] = IF h.k = "await" THEN h.next ELSE "done"]
        /\ progress' = [progress EXCEPT ![i] = IF r.k = "reject" THEN @ ELSE r.progress]
        /\ sinkThrew' = [sinkThrew EXCEPT ![i] = @ \/ (r.k = "throw" /\ r.from = "sink")]
        /\ calls' = [calls EXCEPT ![i] = IF h.k = "await" THEN Append(@, h.call) ELSE @]
        /\ inflight' = [inflight EXCEPT ![i] =
                            @ - Len(settled) + (IF h.k = "await" THEN 1 ELSE 0)]
        /\ responses' = [responses EXCEPT ![i] = @ \o settled]
        /\ locals' = [locals EXCEPT ![i] = IF h.k = "await" THEN h.locals ELSE @]
        /\ caught' = [caught EXCEPT ![i] =
                            IF r.k = "throw" THEN [t |-> "caught", error |-> r.err, from |-> r.from]
                            ELSE @]
        /\ result' = [result EXCEPT ![i] =
                            CASE h.k = "return" -> Fulfilled(h.json)
                              [] h.k = "reject" -> RejectedWith(h.err)
                              [] OTHER -> @]
        /\ UNCHANGED <<exec, args>>

\* weatherForecastExecutor is called
WeatherInvoke(i) ==
    /\ exec[i] = "weather" /\ pc[i] = "called"
    /\ \E s25 \in SinkOutcomes : Step(i, WeatherBegin(args[i], s25), <<>>)

\* the geocoding call settles
GeocodeSettled(i) ==
    /\ pc[i] = "geocode"
    /\ \E settled \in GeocodeSettlements :
            Step(i, WeatherAfterGeocode(args[i], progress[i], settled), <<settled>>)

\* the forecast call settles
ForecastSettled(i) ==
    /\ pc[i] = "forecast"
    /\ \E settled \in ForecastSettlements, s75 \in SinkOutcomes, s100 \in SinkOutcomes :
            Step(i, WeatherAfterForecast(args[i], progress[i], locals[i], settled, s75, s100),
                 <<settled>>)

\* the API-backed convertCurrencyExecutor is called
CurrencyInvoke(i) ==
    /\ exec[i] = "api" /\ pc[i] = "called"
    /\ \E s25 \in SinkOutcomes : Step(i, CurrencyBegin(args[i], s25), <<>>)

\* the exchange-rate call settles
RatesSettled(i) ==
    /\ pc[i] = "rates"
    /\ \E settled \in RateSettlements(calls[i][Len(calls[i])].params.base),
          s75 \in SinkOutcomes, s100 \in SinkOutcomes :
            Step(i, CurrencyAfterRates(args[i], progress[i], settled, s75, s100), <<settled>>)

\* the offline convertCurrencyExecutor is called
OfflineInvoke(i) ==
    /\ exec[i] = "offline" /\ pc[i] = "called"
    /\ \E s50 \in SinkOutcomes : Step(i, OfflineRun(args[i], s50), <<>>)

Next ==
    \/ \E i \in DOMAIN pc : WeatherInvoke(i)
    \/ \E i \in DOMAIN pc : GeocodeSettled(i)
    \/ \E i \in DOMAIN pc : ForecastSettled(i)
    \/ \E i \in DOMAIN pc : CurrencyInvoke(i)
    \/ \E i \in DOMAIN pc : RatesSettled(i)
    \/ \E i \in DOMAIN pc : OfflineInvoke(i)

Spec == Init /\ [][Next]_vars

\* two invocations at a time: the event loop runs their segments in any order
ConcurrentIds == {1, 2}

\* what the two are called with: complete requests with a sink, and one
\* without the target currency
ConcurrentArgs(e) ==
    IF e = "weather"
    THEN {Literal([location |-> Str("London"), units |-> u, publishToClient |-> Fn]) :
            u \in {Str("imperial")}}
    ELSE {Literal([amount |-> Num(5, 1), fromCurrency |-> Str("GBP"), toCurrency |-> c,
                   publishToClient |-> Fn]) : c \in {Str("EUR"), Undefined}}

InitConcurrent ==
    /\ exec \in [ConcurrentIds -> Executors]
    /\ args \in [ConcurrentIds -> WeatherArgs \cup CurrencyArgs]
    /\ \A i \in ConcurrentIds : args[i] \in ConcurrentArgs(exec[i])
    /\ pc = [i \in ConcurrentIds |-> "called"]
    /\ progress = [i \in ConcurrentIds |-> <<>>]
    /\ sinkThrew = [i \in ConcurrentIds |-> FALSE]
    /\ calls = [i \in ConcurrentIds |-> <<>>]
    /\ inflight = [i \in ConcurrentIds |-> 0]
    /\ responses = [i \in ConcurrentIds |-> <<>>]
    /\ locals = [i \in ConcurrentIds |-> Undefined]
    /\ caught = [i \in ConcurrentIds |-> NotCaught]
    /\ result = [i \in ConcurrentIds |-> Pending]

SpecConcurrent == InitConcurrent /\ [][Next]_vars

-----------------------------------------------------------------------------
(* Properties.                                                             *)

Done(i) == pc[i] = "done"
Returned(i) == result[i].state = "fulfilled"
Json(i) == result[i].json
IsData(i) == Returned(i) /\ "data" \in Keys(Json(i))
IsError(i) == Returned(i) /\ "error" \in Keys(Json(i))
\* the `error` object of a returned error envelope
ErrorOf(i) == Json(i).o.error
\* the value the catch block handled
Failure(i) == caught[i].error
SinkSupplied(i) == ~Nullish(args[i]) /\ Truthy(Get(args[i], "publishToClient"))
FallbackOf(i) == IF exec[i] = "weather" THEN WeatherFallback ELSE CurrencyFallback

\* C1: whenever an executor returns, the JSON text it returns decodes to an
\* object with exactly one top-level key, which is `data` or `error`.
C1_ExactlyOneKey ==
    \A i \in DOMAIN pc :
        Returned(i) => Json(i).t = "object" /\ Keys(Json(i)) \in {{"data"}, {"error"}}

\* a call of an executor was rejected by the provider and the executor returned
C1_Witness ==
    \E i \in DOMAIN pc :
        /\ Returned(i) /\ Keys(Json(i)) = {"error"}
        /\ caught[i] # NotCaught /\ caught[i].from = "call"

\* C2: the promise of an executor never rejects, whatever the argument value
\* and whatever fails; an invocation in which something failed resolves to an
\* error envelope.
C2_NeverRejects ==
    \A i \in DOMAIN pc :
        /\ result[i].state # "rejected"
        /\ (Done(i) /\ caught[i] # NotCaught) => IsError(i)

\* C3: in every returned error envelope error.message is a non-empty string:
\* the failure's own message when it has a non-empty one ('Network error' for
\* a call rejected with that Error), else the fallback of the tool.
C3_ErrorMessage ==
    \A i \in DOMAIN pc :
        IsError(i) =>
            /\ ErrorOf(i).t = "object" /\ "message" \in DOMAIN ErrorOf(i).o
            /\ ErrorOf(i).o.message.t = "string"
            /\ ErrorOf(i).o.message.s # ""
            /\ caught[i] # NotCaught
            /\ IF "message" \in DOMAIN Failure(i).o /\ Failure(i).o.message # Str("")
               THEN ErrorOf(i).o.message = Failure(i).o.message
               ELSE ErrorOf(i).o.message = Str(FallbackOf(i))
            /\ Failure(i) = MkError("Network error")
                    => ErrorOf(i).o.message.s = "Network error"

\* a failure without a message, or with an empty one, was reported with the fallback
C3_Witness ==
    \E i \in DOMAIN pc :
        /\ IsError(i)
        /\ Failure(i) \in {MkError(""), Obj([response |-> Obj([data |-> StructuredBody])])}
        /\ ErrorOf(i).o.message = Str(FallbackOf(i))

\* whether the failure carries a response, and the body of that response
HasBody(f) == "response" \in DOMAIN f.o /\ "data" \in DOMAIN f.o.response.o
BodyOf(f) == f.o.response.o.data

AllCallsSucceeded(i) == \A k \in 1..Len(responses[i]) : responses[i][k].ok

\* the argument object carries every required field
ValidRequest(i) ==
    /\ ~Nullish(args[i])
    /\ IF exec[i] = "weather" THEN "location" \in DOMAIN args[i].o
       ELSE {"amount", "fromCurrency", "toCurrency"} \subseteq DOMAIN args[i].o

NonDecreasing(seq) == \A j \in 1..(Len(seq) - 1) : seq[j] <= seq[j + 1]

\* C5: when a sink is supplied and the executor returns a data envelope (here:
\* for a request that carries every required field), the checkpoints passed to
\* the sink are non-decreasing and the last one is 100, in all three executors.
C5_ProgressEndsAt100 ==
    \A i \in DOMAIN pc :
        (IsData(i) /\ SinkSupplied(i) /\ ValidRequest(i)) =>
            /\ NonDecreasing(progress[i])
            /\ Len(progress[i]) > 0
            /\ progress[i][Len(progress[i])] = 100

\* C6: a sink that throws does not fail the invocation: with a valid request
\* and every external call resolved, an invocation whose sink threw still ends
\* with a data envelope.
C6_SinkThrowNonFatal ==
    \A i \in DOMAIN pc :
        (Done(i) /\ sinkThrew[i] /\ ValidRequest(i) /\ AllCallsSucceeded(i)) => IsData(i)

\* the geocoding call of invocation i was resolved with a body whose match
\* list is missing or empty
GeocodeFoundNothing(i) ==
    /\ exec[i] = "weather" /\ Len(responses[i]) >= 1 /\ responses[i][1].ok
    /\ LET body == responses[i][1].response.o.data
       IN  /\ body.t = "object"
           /\ "results" \notin DOMAIN body.o \/ body.o.results = Arr(<<>>)

\* C7: for every location string, when the geocoding call returns a missing or
\* empty match list the weather executor returns an error envelope whose
\* message is `Location "<location>" not found`, and the forecast call is never issued.
C7_LocationNotFound ==
    \A i \in DOMAIN pc :
        (GeocodeFoundNothing(i) /\ "location" \in DOMAIN args[i].o) =>
            /\ Done(i) /\ IsError(i) /\ ~IsData(i)
            /\ ErrorOf(i).o.message =
                    Str("Location \"" \o args[i].o.location.s \o "\" not found")
            /\ Len(calls[i]) = 1 /\ calls[i][1].api = "geocoding"
            /\ inflight[i] = 0

\* an empty match list came back for the empty location string
C7_Witness ==
    \E i \in DOMAIN pc :
        /\ GeocodeFoundNothing(i)
        /\ responses[i][1].response.o.data = Obj([results |-> Arr(<<>>)])
        /\ Get(args[i], "location") = Str("")
        /\ IsError(i) /\ ErrorOf(i).o.message = Str("Location \"\" not found")

\* the rate table of the source currency was obtained by invocation i and has
\* no entry for the requested target currency
TargetAbsent(i) ==
    /\ Done(i) /\ ~Nullish(args[i])
    /\ "toCurrency" \in DOMAIN args[i].o
    /\ IF exec[i] = "api"
       THEN /\ Len(responses[i]) = 1 /\ responses[i][1].ok
            /\ LET body == responses[i][1].response.o.data
               IN  /\ body.t = "object" /\ "rates" \in DOMAIN body.o
                   /\ args[i].o.toCurrency.s \notin DOMAIN body.o.rates.o
       ELSE /\ exec[i] = "offline"
            /\ "fromCurrency" \in DOMAIN args[i].o
            /\ args[i].o.fromCurrency.s \in DOMAIN exchangeRates
            /\ args[i].o.toCurrency.s \notin DOMAIN exchangeRates[args[i].o.fromCurrency.s]

\* C8 as stated: in both currency executors a target currency absent from the
\* rate table of the source gives the message `Conversion to <code> is not supported`.
C8_TargetMessageBoth ==
    \A i \in DOMAIN pc :
        TargetAbsent(i) =>
            /\ IsError(i) /\ ~IsData(i)
            /\ ErrorOf(i).o.message =
                    Str("Conversion to " \o args[i].o.toCurrency.s \o " is not supported")

\* C8 amended: a target currency absent from the rate table of the source gives
\* an error envelope; its message is `Conversion to <code> is not supported` in
\* the API-backed executor and `Conversion from <source> to <code> is not
\* supported` in the offline executor.
C8_TargetMessage ==
    \A i \in DOMAIN pc :
        TargetAbsent(i) =>
            /\ IsError(i) /\ ~IsData(i)
            /\ ErrorOf(i).o.message =
                    IF exec[i] = "api"
                    THEN Str("Conversion to " \o args[i].o.toCurrency.s \o " is not supported")
                    ELSE Str("Conversion from " \o args[i].o.fromCurrency.s \o " to "
                             \o args[i].o.toCurrency.s \o " is not supported")

\* the API returned a rate table without the requested XYZ
C8_Witness ==
    \E i \in DOMAIN pc :
        /\ TargetAbsent(i) /\ exec[i] = "api"
        /\ args[i].o.toCurrency = Str("XYZ")
        /\ IsError(i)
        /\ ErrorOf(i).o.message = Str("Conversion to XYZ is not supported")

\* the rate source answered invocation i and has no entry for the source currency
SourceAbsent(i) ==
    /\ Done(i) /\ ValidRequest(i)
    /\ IF exec[i] = "api"
       THEN /\ Len(responses[i]) = 1 /\ responses[i][1].ok
            /\ args[i].o.fromCurrency.s \notin ApiSources
       ELSE /\ exec[i] = "offline"
            /\ args[i].o.fromCurrency.s \notin DOMAIN exchangeRates

\* C9: in a currency conversion whose source currency has no entry in the rate
\* source, the result is the unsupported-currency error naming the source,
\* also when the target is unsupported too.
C9_SourceNamed ==
    \A i \in DOMAIN pc :
        SourceAbsent(i) =>
            /\ IsError(i)
            /\ ErrorOf(i).o.message =
                    Str("Unsupported currency: " \o args[i].o.fromCurrency.s)

\* the dotted paths of the leaves of a decoded JSON object
RECURSIVE Paths(_)
Paths(j) ==
    UNION { IF j.o[k].t = "object"
            THEN {k \o "." \o q : q \in Paths(j.o[k])}
            ELSE {k} : k \in DOMAIN j.o }

WeatherFields ==
    { "location.name", "location.country",
      "location.coordinates.lat", "location.coordinates.lon",
      "current.temperature", "current.feels_like", "current.humidity",
      "current.pressure", "current.description", "current.icon",
      "current.wind.speed", "current.wind.direction",
      "current.cloudiness", "current.timestamp",
      "units.temperature", "units.wind" }

CurrencyFields ==
    {"amount", "fromCurrency", "toCurrency", "rate", "equivalentString", "timestamp"}

\* C10: every data envelope of a tool (returned for a request that carries
\* every required field) has the same fields, whatever the provider returned:
\* all of WeatherFields for weather, all of CurrencyFields for currency.
C10_FixedFields ==
    \A i \in DOMAIN pc :
        (IsData(i) /\ ValidRequest(i)) =>
            IF exec[i] = "weather"
            THEN Paths(Json(i).o.data) = WeatherFields
            ELSE CurrencyFields \subseteq Paths(Json(i).o.data)

\* the body the forecast call of invocation i was resolved with
ForecastBody(i) == responses[i][2].response.o.data

\* C11: the unit labels of a weather data envelope depend on the requested
\* units only: 'imperial' gives °F and mph, 'metric' or no units gives °C and
\* m/s, whatever the provider returns; and the units asked of the forecast call
\* are those of the same system.
C11_UnitLabels ==
    \A i \in DOMAIN pc :
        exec[i] = "weather" =>
            LET metric == Get(args[i], "units") \in {Str("metric"), Undefined}
                imperial == Get(args[i], "units") = Str("imperial")
            IN  /\ (IsData(i) /\ imperial) =>
                        Json(i).o.data.o.units =
                            Obj([temperature |-> Str("°F"), wind |-> Str("mph")])
                /\ (IsData(i) /\ metric) =>
                        Json(i).o.data.o.units =
                            Obj([temperature |-> Str("°C"), wind |-> Str("m/s")])
                /\ (Len(calls[i]) = 2 /\ imperial) =>
                        /\ calls[i][2].params.temperature_unit = "fahrenheit"
                        /\ calls[i][2].params.wind_speed_unit = "mph"
                /\ (Len(calls[i]) = 2 /\ metric) =>
                        /\ calls[i][2].params.temperature_unit = "celsius"
                        /\ calls[i][2].params.wind_speed_unit = "ms"

\* an imperial request answered by a provider that echoes metric units
C11_Witness ==
    \E i \in DOMAIN pc :
        /\ exec[i] = "weather" /\ IsData(i)
        /\ Get(args[i], "units") = Str("imperial")
        /\ "current_units" \in DOMAIN ForecastBody(i).o
        /\ Json(i).o.data.o.units.o.temperature = Str("°F")
        /\ calls[i][2].params.wind_speed_unit = "mph"

\* the weather code of the provider's answer, Undefined when it has none
ProvidedCode(i) == Get(Get(ForecastBody(i), "current"), "weather_code")

\* C12: description and icon of a weather data envelope are the table's entry
\* for the provider's weather code (0 -> Clear sky, 61 -> Slight rain,
\* 95 -> Thunderstorm, ...), code 0 included, and 'Unknown' with icon '03d' for
\* a code that is not in the table or is absent; and such a code does not turn
\* the invocation into an error.
C12_WeatherCodes ==
    \A i \in DOMAIN pc :
        (exec[i] = "weather" /\ Done(i) /\ Len(responses[i]) = 2 /\ responses[i][2].ok
                /\ Get(ForecastBody(i), "current").t = "object" /\ ~sinkThrew[i]) =>
            /\ IsData(i)
            /\ LET code == ProvidedCode(i)
                   cur == Json(i).o.data.o.current.o
               IN  /\ code = Num(0, 0) => cur.description = Str("Clear sky") /\ cur.icon = Str("01d")
                   /\ code = Num(61, 0) => cur.description = Str("Slight rain") /\ cur.icon = Str("10d")
                   /\ code = Num(95, 0) => cur.description = Str("Thunderstorm") /\ cur.icon = Str("11d")
                   /\ (code.t = "number" /\ code.m \in DOMAIN weatherCodeMap) =>
                        /\ cur.description = Str(weatherCodeMap[code.m].description)
                        /\ cur.icon = Str(weatherCodeMap[code.m].icon)
                   /\ (code = Undefined \/ (code.t = "number" /\ code.m \notin DOMAIN weatherCodeMap)) =>
                        cur.description = Str("Unknown") /\ cur.icon = Str("03d")
                   /\ Cardinality(DOMAIN weatherCodeMap) = 18

\* the provider answered with code 0 and the envelope says Clear sky
C12_Witness ==
    \E i \in DOMAIN pc :
        /\ exec[i] = "weather" /\ IsData(i)
        /\ ProvidedCode(i) = Num(0, 0)
        /\ Json(i).o.data.o.current.o.description = Str("Clear sky")

\* m / 10^e rounded half-up to two decimals, in exact decimal arithmetic
HalfUp2(m, e) ==
    IF e <= 2 THEN Normalize(Num(m * Pow10(2 - e), 2))
    ELSE LET d == Pow10(e - 2)
         IN  Normalize(Num(IF 2 * (m % d) >= d THEN (m \div d) + 1 ELSE m \div d, 2))

\* C13: in every data envelope of a conversion, data.amount is amount * rate
\* rounded half-up to exactly two decimals (123.45 * 0.8537 -> 105.39,
\* 100 * 0.85 -> 85), and equivalentString is built from the input amount as
\* given and that rounded amount.
C13_RoundedHalfUp ==
    \A i \in DOMAIN pc :
        (exec[i] \in {"api", "offline"} /\ IsData(i) /\ ValidRequest(i)) =>
            LET data == Json(i).o.data.o
                amount == Get(args[i], "amount")
                rounded == HalfUp2(amount.m * data.rate.m, amount.e + data.rate.e)
            IN  /\ data.amount = rounded
                /\ data.equivalentString =
                        Str(ToStr(amount) \o " " \o ToStr(data.fromCurrency) \o " = "
                            \o ToStr(rounded) \o " " \o ToStr(data.toCurrency))

\* an invocation on its own: where it stands, what its sink has received and
\* what it has returned
SoloStart == [pc |-> "called", progress |-> <<>>, locals |-> Undefined, result |-> Pending]

\* the invocation on its own after a segment with outcome r
SoloAfter(e, c, r) ==
    LET h == Handled(e, r)
    IN  [pc |-> IF h.k = "await" THEN h.next ELSE "done",
         progress |-> IF r.k = "reject" THEN c.progress ELSE r.progress,
         locals |-> IF h.k = "await" THEN h.locals ELSE c.locals,
         result |-> CASE h.k = "return" -> Fulfilled(h.json)
                      [] h.k = "reject" -> RejectedWith(h.err)
                      [] OTHER -> c.result]

\* executor e called alone with a, its calls settling with resp in turn and
\* its sink behaving as s at the checkpoints: the state it is in once the
\* settlements are used up, and how many of them it used
SoloRun(e, a, resp, s) ==
    LET c1 == SoloAfter(e, SoloStart,
                        CASE e = "weather" -> WeatherBegin(a, s[1])
                          [] e = "api" -> CurrencyBegin(a, s[1])
                          [] e = "offline" -> OfflineRun(a, s[1]))
        c2 == SoloAfter(e, c1,
                        IF e = "weather" THEN WeatherAfterGeocode(a, c1.progress, resp[1])
                        ELSE CurrencyAfterRates(a, c1.progress, resp[1], s[2], s[3]))
        c3 == SoloAfter(e, c2,
                        WeatherAfterForecast(a, c2.progress, c2.locals, resp[2], s[2], s[3]))
    IN  IF c1.pc = "done" \/ Len(resp) = 0 THEN [run |-> c1, used |-> 0]
        ELSE IF c2.pc = "done" \/ Len(resp) = 1 THEN [run |-> c2, used |-> 1]
        ELSE [run |-> c3, used |-> 2]

\* C14: however the segments of concurrent invocations interleave, each
\* invocation's envelope and the progress events its own sink has received are
\* those of the same executor run alone with the same arguments and the same
\* provider responses.
C14_Independent ==
    \A i \in DOMAIN pc :
        pc[i] # "called" =>
            \E s \in SinkOutcomes \X SinkOutcomes \X SinkOutcomes :
                LET solo == SoloRun(exec[i], args[i], responses[i], s)
                IN  /\ solo.used = Len(responses[i])
                    /\ solo.run.pc = pc[i]
                    /\ solo.run.progress = progress[i]
                    /\ solo.run.result = result[i]

\* both invocations are suspended at an await at the same time, the first
\* one at its second call, each sink having received its own checkpoint 25
C14_Witness ==
    /\ DOMAIN pc = ConcurrentIds
    /\ exec[1] = "weather" /\ pc[1] = "forecast" /\ inflight[1] = 1
    /\ exec[2] = "api" /\ pc[2] = "rates" /\ inflight[2] = 1
    /\ progress[1] = <<25>> /\ progress[2] = <<25>>

\* the first match of the geocoding answer of invocation i
FirstMatch(i) == First(Get(Get(responses[i][1].response, "data"), "results"))

\* C15: the external calls of one invocation are sequential and not repeated:
\* never two in flight; the weather executor issues at most the geocoding call
\* and then the forecast call, the latter only after the former was answered
\* with at least one match and with that match's coordinates; the API-backed
\* conversion issues at most one call (the offline one none); and after a
\* call failed no further call is issued.
C15_SequentialCalls ==
    \A i \in DOMAIN pc :
        /\ inflight[i] \in {0, 1}
        /\ inflight[i] = Len(calls[i]) - Len(responses[i])
        /\ exec[i] = "weather" =>
                /\ Len(calls[i]) <= 2
                /\ Len(calls[i]) >= 1 => calls[i][1].api = "geocoding"
                /\ Len(calls[i]) = 2 =>
                        /\ calls[i][2].api = "forecast"
                        /\ Len(responses[i]) >= 1 /\ responses[i][1].ok
                        /\ FirstMatch(i).t = "object"
                        /\ calls[i][2].params.latitude = Get(FirstMatch(i), "latitude")
                        /\ calls[i][2].params.longitude = Get(FirstMatch(i), "longitude")
        /\ exec[i] = "api" => Len(calls[i]) <= 1 /\ \A k \in 1..Len(calls[i]) : calls[i][k].api = "rates"
        /\ exec[i] = "offline" => calls[i] = <<>>
        /\ \A k \in 1..Len(responses[i]) : ~responses[i][k].ok => Len(calls[i]) = k

\* the forecast call is in flight for the coordinates of the match New York
C15_Witness ==
    \E i \in DOMAIN pc :
        /\ exec[i] = "weather" /\ Len(calls[i]) = 2 /\ inflight[i] = 1
        /\ Get(FirstMatch(i), "name") = Str("New York")
        /\ calls[i][2].params.latitude = Num(407128, 4)

\* the sink of invocation i has received checkpoint c
Received(i, c) == \E k \in 1..Len(progress[i]) : progress[i][k] = c

\* C16: checkpoint 100 is sent only once the result is assembled: an
\* invocation whose sink has received 100 (and never threw) returns a data
\* envelope, never an error envelope.
C16_HundredThenData ==
    \A i \in DOMAIN pc :
        (Done(i) /\ ValidRequest(i) /\ ~sinkThrew[i] /\ Received(i, 100)) => IsData(i)

====
